---- MODULE Spec2Model ----
(***************************************************************************)
(* A model of vexpresso's DaftCollection (src/vexpresso/daft/collection.py) *)
(* as a heap of Collection objects over an abstract table engine.           *)
(*                                                                          *)
(* A table (daft.DataFrame) is modelled by what its plan denotes: the rows  *)
(* it yields, its column names, whether it is materialized, and whether     *)
(* running it raises.  Row positions are 1-based here and 0-based in the    *)
(* code; vexpresso_index values are the code's 0-based values.              *)
(***************************************************************************)
EXTENDS Integers, Sequences, FiniteSets, TLC

VARIABLES colls, regs, last, calls

vars == <<colls, regs, last, calls>>

(***************************************************************************)
(* Bounds                                                                   *)
(***************************************************************************)
MaxRows == 2
MaxCalls == 2
MaxBatch == 2

(***************************************************************************)
(* Values                                                                   *)
(***************************************************************************)
NoneVal == -9
MinusOne == -1
NoFn == "none"
Fns == {"f1", "f2"}
Vals == {0, 1}

IndexCol == "vexpresso_index"
TextCol == "text"
IntsCol == "ints"
EmbCol == "embeddings_text"
ScoreCol == "embeddings_text_score"
ApplyCol == "tranformed_text"
AllCols == {IndexCol, TextCol, IntsCol, EmbCol, ScoreCol, ApplyCol}
Fields == AllCols \cup {"origin"}
Keys == {EmbCol}

Min(a, b) == IF a < b THEN a ELSE b
Abs(a) == IF a < 0 THEN -a ELSE a
Range(s) == {s[i] : i \in DOMAIN s}

\* The two embedding functions a caller can supply, on one-dimensional content.
FnApply(f, x) == IF f = "f1" THEN x ELSE 1 - x

(***************************************************************************)
(* The table engine (daft), by the contract the facade uses                 *)
(***************************************************************************)
Column(df, c) == [i \in 1..Len(df.rows) |-> df.rows[i][c]]

WithColumn(df, name, vals) ==
    [df EXCEPT !.rows = [i \in 1..Len(df.rows) |-> [df.rows[i] EXCEPT ![name] = vals[i]]],
               !.cols = df.cols \cup {name},
               !.mat = FALSE]

Project(df, keep) ==
    [df EXCEPT !.rows = [i \in 1..Len(df.rows) |->
                            [f \in Fields |-> IF f \in keep \cup {"origin"}
                                              THEN df.rows[i][f] ELSE NoneVal]],
               !.cols = keep,
               !.mat = FALSE]

EngineExclude(df, names) == Project(df, df.cols \ names)

Where(df, keep) ==
    [df EXCEPT !.rows = SelectSeq(df.rows, LAMBDA r : r \in keep), !.mat = FALSE]

RECURSIVE RowsAt(_, _, _)
RowsAt(rows, keep, i) ==
    IF i > Len(rows) THEN <<>>
    ELSE (IF i \in keep THEN <<rows[i]>> ELSE <<>>) \o RowsAt(rows, keep, i + 1)

\* r goes strictly before s in the order of a sort on column c
Before(r, s, c, desc) == IF desc THEN r[c] > s[c] ELSE r[c] < s[c]

RECURSIVE InsertRow(_, _, _, _)
InsertRow(sorted, r, c, desc) ==
    IF sorted = <<>> THEN <<r>>
    ELSE IF Before(r, Head(sorted), c, desc) THEN <<r>> \o sorted
         ELSE <<Head(sorted)>> \o InsertRow(Tail(sorted), r, c, desc)

RECURSIVE SortRows(_, _, _)
SortRows(rows, c, desc) ==
    IF rows = <<>> THEN <<>>
    ELSE InsertRow(SortRows(SubSeq(rows, 1, Len(rows) - 1), c, desc),
                   rows[Len(rows)], c, desc)

EngineSort(df, c, desc) == [df EXCEPT !.rows = SortRows(df.rows, c, desc), !.mat = FALSE]

EngineCollect(df) == [df EXCEPT !.mat = TRUE]

Failing(df, why) == [df EXCEPT !.rows = <<>>, !.fail = why, !.mat = FALSE]

FromPydict(rows, cols) == [rows |-> rows, cols |-> cols, mat |-> FALSE, fail |-> "none"]

CountRows(df) == Len(df.rows)

(***************************************************************************)
(* The filter helper and the retriever                                      *)
(***************************************************************************)
\* The one structured condition the model's callers use: {"ints": {"eq": 1}}
FilterPred(r) == r[IntsCol] = 1

FilterHelperFilter(df) == Where(df, {r \in Range(df.rows) : FilterPred(r)})

FilterHelperSelect(df, names) == Project(df, names)

\* Higher is more relevant: the negated distance of two one-dimensional vectors.
Score(q, e) == 0 - Abs(q - e)

RECURSIVE InsertPos(_, _, _, _)
InsertPos(ranked, p, q, embs) ==
    IF ranked = <<>> THEN <<p>>
    ELSE IF Score(q, embs[p]) > Score(q, embs[Head(ranked)]) THEN <<p>> \o ranked
         ELSE <<Head(ranked)>> \o InsertPos(Tail(ranked), p, q, embs)

\* Candidate positions by descending score, equal scores by ascending position.
RECURSIVE RankFirst(_, _, _)
RankFirst(n, q, embs) ==
    IF n = 0 THEN <<>> ELSE InsertPos(RankFirst(n - 1, q, embs), n, q, embs)

Ranking(q, embs) == RankFirst(Len(embs), q, embs)

ClampK(k, n) == IF k > 0 /\ k <= n THEN k ELSE n

RetrievalOutput(q, embs, k) ==
    LET rank == Ranking(q, embs)
        kk == ClampK(k, Len(embs))
    IN  [indices |-> SubSeq(rank, 1, kk),
         scores |-> [i \in 1..kk |-> Score(q, embs[rank[i]])]]

\* retrieve(query_embeddings, embeddings, k): one RetrievalOutput per query vector
Retrieve(batch, embs, k) == [j \in 1..Len(batch) |-> RetrievalOutput(batch[j], embs, k)]

(***************************************************************************)
(* collection.py                                                            *)
(***************************************************************************)
\* indices(columnn): list(range(len(columnn)))
indices(column) == [i \in 1..Len(column) |-> i - 1]

\* retriever.retrieve(...)[0]: the retrieval output the udf takes (1-based here)
FirstOutput == 1

\* The _retrieve udf: the first query's retrieval output, one result per row.
\* scores[i] is read for every row position i, so it raises when fewer than
\* len(embeddings) scores came back.
RetrieveUdf(embs, batch, k) ==
    IF NoneVal \in Range(embs) THEN [fail |-> "TypeError", results |-> <<>>]
    ELSE LET retrieval_output == Retrieve(batch, embs, k)[FirstOutput]
             idxs == retrieval_output.indices
             scores == retrieval_output.scores
         IN  IF Len(scores) < Len(embs)
             THEN [fail |-> "IndexError", results |-> <<>>]
             ELSE [fail |-> "none",
                   results |-> [i \in 1..Len(embs) |->
                       [retrieve_index |-> IF i \in Range(idxs) THEN i ELSE NoneVal,
                        retrieve_score |-> scores[i]]]]

\* DaftCollection.__init__ on raw data: the table of the data plus the
\* vexpresso_index column computed from the first column's length.
InitDf(rows, cols) ==
    LET t == FromPydict(rows, cols)
    IN  WithColumn(t, IndexCol, indices(Column(t, TextCol)))

NewCollection(df, reg, grown) == [df |-> df, reg |-> reg, grown |-> grown]

\* A from_df that went through the constructor's index assignment again.
from_df_reindexed(self, df) ==
    NewCollection(WithColumn(df, IndexCol, indices(Column(df, TextCol))), self.reg, self.grown)

\* from_df: the given table, the receiver's retriever and registry object
from_df(self, df) == NewCollection(df, self.reg, self.grown)

\* from_data: the constructor on raw data, the receiver's registry object
from_data(self, rows, cols) == NewCollection(InitDf(rows, cols), self.reg, TRUE)

\* add_column: with_column of the values under the name
add_column(self, vals, name) == from_df(self, WithColumn(self.df, name, vals))

\* The table part of DaftCollection._retrieve (lines 207-236) on an embedding
\* column that exists: the udf's two outputs as columns, the rows whose
\* retrieve_index is null or -1 dropped, the helper columns excluded, the sort.
RetrieveDf(df, batch, k, srt) ==
    IF df.fail # "none" THEN df
    ELSE LET udf == RetrieveUdf(Column(df, EmbCol), batch, k)
         IN  IF udf.fail # "none" THEN Failing(df, udf.fail)
             ELSE LET n == Len(df.rows)
                      scored == WithColumn(df, ScoreCol,
                                    [i \in 1..n |-> udf.results[i].retrieve_score])
                      keep == {i \in 1..n :
                                 /\ udf.results[i].retrieve_index # NoneVal
                                 /\ udf.results[i].retrieve_index # MinusOne}
                      kept == [scored EXCEPT !.rows = RowsAt(scored.rows, keep, 1)]
                  IN  IF srt THEN EngineSort(kept, ScoreCol, TRUE) ELSE kept

\* collect(): the receiver's table, materialized, in a new Collection
collect(self) == from_df(self, EngineCollect(self.df))

\* @lazy(default=True): the method's result as it is, or executed when the
\* caller passes lazy=False
LazyResult(c, lz) == IF lz THEN c ELSE collect(c)

(***************************************************************************)
(* State                                                                    *)
(*   colls  the Collection objects created so far, by identity              *)
(*   regs   the embedding_functions dict objects, by identity; regs[1] is   *)
(*          the dict of the constructor's default argument                  *)
(*   last   the last call: its arguments and what it returned or raised     *)
(***************************************************************************)
EmptyReg == [key \in Keys |-> NoFn]
DefaultReg == 1

NoCall ==
    [op |-> "none", recv |-> 0, res |-> 0, err |-> "none", warned |-> FALSE,
     executed |-> FALSE, lazy |-> TRUE, k |-> NoneVal, sort |-> TRUE, filt |-> FALSE,
     batch |-> <<>>, raw |-> NoneVal, fn |-> NoFn, upd |-> TRUE, in_place |-> FALSE,
     taken |-> 0]

Call(op, i) == [NoCall EXCEPT !.op = op, !.recv = i]

Texts == [1..MaxRows -> Vals]
Batches == [1..MaxBatch -> Vals]

\* One more call is made.
Step == calls < MaxCalls /\ calls' = calls + 1

RawRow(i, t) ==
    [f \in Fields |-> CASE f = TextCol -> t
                        [] f = IntsCol -> i % 2
                        [] f = "origin" -> i - 1
                        [] OTHER -> NoneVal]

\* The call raised: nothing is returned.
Raise(info, err) ==
    /\ colls' = colls
    /\ last' = [Call(info.op, info.recv) EXCEPT !.err = err, !.executed = info.executed,
                                                !.fn = info.fn]

\* The call returns the Collection c of a @lazy method called with lazy = lz.
Emit(info, c, lz) ==
    IF ~lz /\ c.df.fail # "none"
    THEN Raise([info EXCEPT !.executed = TRUE], c.df.fail)
    ELSE /\ colls' = Append(colls, LazyResult(c, lz))
         /\ last' = [info EXCEPT !.res = Len(colls) + 1, !.lazy = lz,
                                 !.executed = info.executed \/ ~lz]

\* DaftCollection(data): the Collection of the raw columns "text" and "ints"
Constructed(texts, reg) ==
    NewCollection(InitDf([i \in 1..Len(texts) |-> RawRow(i, texts[i])], {TextCol, IntsCol}),
                  reg, FALSE)

\* The program has built one Collection from raw data, with the default
\* embedding_functions argument or with a new dict of its own.
Init ==
    \E texts \in Texts, shared \in BOOLEAN :
        /\ colls = <<Constructed(texts, IF shared THEN DefaultReg ELSE 2)>>
        /\ regs = IF shared THEN <<EmptyReg>> ELSE <<EmptyReg, EmptyReg>>
        /\ last = [Call("construct", 0) EXCEPT !.res = 1]
        /\ calls = 0

\* DaftCollection(data, embedding_functions = <default> | <a new dict>)
Construct(texts, shared) ==
    /\ Step
    /\ LET reg == IF shared THEN DefaultReg ELSE Len(regs) + 1
       IN  /\ colls' = Append(colls, Constructed(texts, reg))
           /\ regs' = IF shared THEN regs ELSE Append(regs, EmptyReg)
           /\ last' = [Call("construct", 0) EXCEPT !.res = Len(colls) + 1]

\* set_embedding_function("embeddings_text", f)
SetEmbeddingFunction(i, f) ==
    /\ Step
    /\ regs' = [regs EXCEPT ![colls[i].reg][EmbCol] = f]
    /\ colls' = colls
    /\ last' = [Call("set_embedding_function", i) EXCEPT !.fn = f]

\* select(c, lazy), which is also self[c]
Select(i, c, lz) ==
    /\ Step
    /\ regs' = regs
    /\ LET self == colls[i]
       IN  IF c \notin self.df.cols
           THEN Raise(Call("select", i), "ValueError")
           ELSE Emit(Call("select", i), from_df(self, FilterHelperSelect(self.df, {c})), lz)

\* exclude(c, lazy)
Exclude(i, c, lz) ==
    /\ Step
    /\ regs' = regs
    /\ LET self == colls[i]
       IN  Emit(Call("exclude", i), from_df(self, EngineExclude(self.df, {c})), lz)

\* filter({"ints": {"eq": 1}}, lazy)
Filter(i, lz) ==
    /\ Step
    /\ regs' = regs
    /\ LET self == colls[i]
       IN  IF IntsCol \notin self.df.cols
           THEN Raise(Call("filter", i), "ValidationError")
           ELSE Emit(Call("filter", i), from_df(self, FilterHelperFilter(self.df)), lz)

\* A sort that assigned the sorted table to self.df and returned self.
SortInPlace(i, desc, lz) ==
    /\ Step
    /\ regs' = regs
    /\ colls' = [colls EXCEPT ![i].df = EngineSort(colls[i].df, IntsCol, desc)]
    /\ last' = [Call("sort", i) EXCEPT !.sort = desc, !.res = i, !.lazy = lz]

\* sort(column = "ints", desc, lazy)
Sort(i, desc, lz) ==
    /\ Step
    /\ regs' = regs
    /\ LET self == colls[i]
       IN  IF IntsCol \notin self.df.cols
           THEN Raise(Call("sort", i), "ValueError")
           ELSE Emit([Call("sort", i) EXCEPT !.sort = desc],
                     from_df(self, EngineSort(self.df, IntsCol, desc)), lz)

\* apply(transform_fn, self["text"]) with the default target name
ApplyDf(df, f, to) ==
    WithColumn(df, to, [i \in 1..Len(df.rows) |-> FnApply(f, df.rows[i][TextCol])])

Apply(i, f, lz) ==
    /\ Step
    /\ regs' = regs
    /\ LET self == colls[i]
       IN  IF TextCol \notin self.df.cols
           THEN Raise(Call("apply", i), "ValueError")
           ELSE Emit([Call("apply", i) EXCEPT !.fn = f],
                     from_df(self, ApplyDf(self.df, f, ApplyCol)), lz)

\* A lookup by self.embedding_functions.get(key), which never raises.
MissingFunctionIgnored(reg, f) == FALSE

\* self.embedding_functions[key] with no inline function raises KeyError when
\* the key has no entry.
MissingFunction(reg, f) == f = NoFn /\ reg[EmbCol] = NoFn

\* The registry part of embed (lines 356-368): the dict after the call
EmbedRegistry(reg, f, upd) ==
    IF reg[EmbCol] # NoFn
    THEN (IF upd THEN [reg EXCEPT ![EmbCol] = f] ELSE reg)
    ELSE [reg EXCEPT ![EmbCol] = f]

\* embed("text", content, embedding_fn = f, update_embedding_fn = upd, lazy)
Embed(i, content, f, upd, lz) ==
    /\ Step
    /\ LET self == colls[i]
           d == self.reg
           n == Len(self.df.rows)
           collection == IF content # NoneVal
                         THEN add_column(self, [j \in 1..n |-> content], TextCol)
                         ELSE self
           info == [Call("embed", i) EXCEPT !.fn = f, !.upd = upd]
       IN  IF MissingFunction(regs[d], f)
           THEN /\ regs' = regs
                /\ Raise(info, "KeyError")
           ELSE LET reg2 == IF f = NoFn THEN regs[d] ELSE EmbedRegistry(regs[d], f, upd)
                    warn == f # NoFn /\ regs[d][EmbCol] # NoFn /\ f # regs[d][EmbCol]
                    fn == reg2[EmbCol]
                IN  /\ regs' = [regs EXCEPT ![d] = reg2]
                    /\ IF TextCol \notin self.df.cols
                       THEN Raise(info, "ValueError")
                       ELSE Emit([info EXCEPT !.warned = warn],
                                 from_df(collection, ApplyDf(collection.df, fn, EmbCol)), lz)

\* The registry part of _retrieve (lines 184-191): the dict after the call
RetrieveRegistry(reg, f) ==
    IF reg[EmbCol] # NoFn THEN reg ELSE [reg EXCEPT ![EmbCol] = f]

\* The query vectors _retrieve ranks with (lines 193-196): the ones given, or the
\* registered function applied to [query]
QueryEmbeddings(reg, raw, qe) ==
    IF qe # <<>> THEN qe ELSE <<FnApply(reg[EmbCol], raw)>>

\* query(column = "embeddings_text", query = raw | query_embeddings = qe,
\*       filter_conditions = None | {"ints": {"eq": 1}}, k, sort, embedding_fn, lazy)
Query(i, raw, qe, filt, k, srt, f, lz) ==
    /\ Step
    /\ (raw = NoneVal) # (qe = <<>>)
    /\ LET self == colls[i]
           d == self.reg
           counted == k = NoneVal
           kk == IF counted THEN CountRows(self.df) ELSE k
           info == [Call("query", i) EXCEPT !.fn = f, !.k = k, !.sort = srt, !.filt = filt,
                                            !.raw = raw, !.executed = counted]
       IN  IF counted /\ self.df.fail # "none"
           THEN /\ regs' = regs
                /\ Raise(info, self.df.fail)
           ELSE IF MissingFunction(regs[d], f)
           THEN /\ regs' = regs
                /\ Raise(info, "KeyError")
           ELSE LET reg2 == IF f = NoFn THEN regs[d] ELSE RetrieveRegistry(regs[d], f)
                    warn == f # NoFn /\ regs[d][EmbCol] # NoFn /\ f # regs[d][EmbCol]
                    batch == QueryEmbeddings(reg2, raw, qe)
                    ranked == RetrieveDf(self.df, batch, kk, srt)
                IN  /\ regs' = [regs EXCEPT ![d] = reg2]
                    /\ IF EmbCol \notin self.df.cols
                       THEN Raise(info, "ValueError")
                       ELSE IF filt /\ IntsCol \notin self.df.cols
                       THEN Raise(info, "ValidationError")
                       ELSE Emit([info EXCEPT !.warned = warn, !.batch = batch,
                                              !.taken = FirstOutput],
                                 from_df(self, IF filt THEN FilterHelperFilter(ranked)
                                               ELSE ranked), lz)

\* add_column(column = [v, ..., v], name = "ints")
AddColumn(i, v) ==
    /\ Step
    /\ regs' = regs
    /\ LET self == colls[i]
       IN  Emit(Call("add_column", i),
                add_column(self, [j \in 1..Len(self.df.rows) |-> v], IntsCol), TRUE)

\* self["ints"] = [v, ..., v]
SetItem(i, v) ==
    /\ Step
    /\ regs' = regs
    /\ LET self == colls[i]
       IN  /\ colls' = [colls EXCEPT ![i].df =
                           add_column(self, [j \in 1..Len(self.df.rows) |-> v], IntsCol).df]
           /\ last' = Call("setitem", i)

\* add_rows([{"text": t, "ints": 0}]): the columns of to_dict() with the new row's
\* values (None where it has none) appended, through from_data
AddRows(i, t) ==
    /\ Step
    /\ Len(colls[i].df.rows) <= MaxRows
    /\ regs' = regs
    /\ LET self == colls[i]
           info == [Call("add_rows", i) EXCEPT !.executed = TRUE]
           d == [f \in Fields |-> CASE f = TextCol -> t
                                    [] f = IntsCol -> 0
                                    [] OTHER -> NoneVal]
           new == [f \in Fields |-> IF f \in self.df.cols THEN d[f] ELSE NoneVal]
       IN  IF self.df.fail # "none"
           THEN Raise(info, self.df.fail)
           ELSE Emit(info, from_data(self, Append(self.df.rows, new), self.df.cols), TRUE)

\* collect(in_place) and execute()
Collect(i, in_place) ==
    /\ Step
    /\ regs' = regs
    /\ LET self == colls[i]
           info == [Call("collect", i) EXCEPT !.executed = TRUE, !.in_place = in_place]
       IN  IF self.df.fail # "none"
           THEN Raise(info, self.df.fail)
           ELSE IF in_place
           THEN /\ colls' = [colls EXCEPT ![i].df = EngineCollect(self.df)]
                /\ last' = [info EXCEPT !.res = i]
           ELSE Emit(info, collect(self), TRUE)

Ks == {NoneVal} \cup (1..MaxRows)
InlineFns == Fns \cup {NoFn}

Next ==
    \/ \E texts \in Texts, shared \in BOOLEAN : Construct(texts, shared)
    \/ \E i \in DOMAIN colls, f \in Fns : SetEmbeddingFunction(i, f)
    \/ \E i \in DOMAIN colls, c \in {TextCol, IntsCol}, lz \in BOOLEAN : Select(i, c, lz)
    \/ \E i \in DOMAIN colls, c \in {IntsCol, ScoreCol}, lz \in BOOLEAN : Exclude(i, c, lz)
    \/ \E i \in DOMAIN colls, lz \in BOOLEAN : Filter(i, lz)
    \/ \E i \in DOMAIN colls, desc \in BOOLEAN, lz \in BOOLEAN : Sort(i, desc, lz)
    \/ \E i \in DOMAIN colls, f \in Fns, lz \in BOOLEAN : Apply(i, f, lz)
    \/ \E i \in DOMAIN colls, content \in Vals \cup {NoneVal}, f \in InlineFns,
          upd \in BOOLEAN, lz \in BOOLEAN : Embed(i, content, f, upd, lz)
    \/ \E i \in DOMAIN colls, raw \in Vals \cup {NoneVal}, qe \in Batches \cup {<<>>},
          filt \in BOOLEAN, k \in Ks, srt \in BOOLEAN, f \in InlineFns, lz \in BOOLEAN :
          Query(i, raw, qe, filt, k, srt, f, lz)
    \/ \E i \in DOMAIN colls, v \in Vals : AddColumn(i, v)
    \/ \E i \in DOMAIN colls, v \in Vals : SetItem(i, v)
    \/ \E i \in DOMAIN colls, t \in Vals : AddRows(i, t)
    \/ \E i \in DOMAIN colls, in_place \in BOOLEAN : Collect(i, in_place)

Spec == Init /\ [][Next]_vars

\* The calls of one chain c.op1(...).op2(...)...: every call is made on the
\* Collection created last, and a query is given one batch of query vectors.
Newest == Len(colls)
OneBatch == [n \in 1..MaxBatch |-> 1]

NextLine ==
    \/ \E f \in Fns : SetEmbeddingFunction(Newest, f)
    \/ \E lz \in BOOLEAN : Select(Newest, TextCol, lz)
    \/ \E lz \in BOOLEAN : Exclude(Newest, IntsCol, lz)
    \/ \E lz \in BOOLEAN : Filter(Newest, lz)
    \/ \E desc \in BOOLEAN, lz \in BOOLEAN : Sort(Newest, desc, lz)
    \/ \E lz \in BOOLEAN : Apply(Newest, "f2", lz)
    \/ \E f \in InlineFns, upd \in BOOLEAN, lz \in BOOLEAN :
          Embed(Newest, NoneVal, f, upd, lz)
    \/ \E filt \in BOOLEAN, k \in Ks, srt \in BOOLEAN, f \in InlineFns, lz \in BOOLEAN :
          Query(Newest, NoneVal, OneBatch, filt, k, srt, f, lz)
    \/ AddColumn(Newest, 0)
    \/ \E v \in Vals : SetItem(Newest, v)
    \/ AddRows(Newest, 1)
    \/ \E in_place \in BOOLEAN : Collect(Newest, in_place)

SpecLine == Init /\ [][NextLine]_vars

(***************************************************************************)
(* Properties                                                               *)
(***************************************************************************)
Transformations == {"select", "exclude", "filter", "sort", "apply", "embed", "query"}
Returned == last.res # 0 /\ last.err = "none"
Receiver == colls[last.recv]
Result == colls[last.res]
ResultCount == IF last.res # 0 THEN 1 ELSE 0
Origins(rows) == {rows[j]["origin"] : j \in DOMAIN rows}
NonIncreasing(rows, c) == \A j \in 1..(Len(rows) - 1) : rows[j][c] >= rows[j + 1][c]
InOriginalOrder(rows, of) ==
    \A a, b \in DOMAIN rows : a < b =>
        \E x, y \in DOMAIN of : x < y /\ of[x] = [rows[a] EXCEPT ![ScoreCol] = of[x][ScoreCol]]
                                      /\ of[y] = [rows[b] EXCEPT ![ScoreCol] = of[y][ScoreCol]]

\* C1 as stated: every call leaves the table held by every existing Collection
\* as it was, except collect(in_place=True) on its receiver, and every other
\* call that returns has a new Collection as its result.
CopyOnWrite ==
    [][/\ \A j \in DOMAIN colls :
            \/ colls'[j].df = colls[j].df
            \/ last'.op = "collect" /\ last'.in_place /\ last'.recv = j
       /\ (last'.err = "none" /\ last'.op # "set_embedding_function"
              /\ ~(last'.op = "collect" /\ last'.in_place))
            => (last'.res = Len(colls) + 1 /\ Len(colls') = Len(colls) + 1)]_vars

\* C1 amended: every call leaves the table held by every existing Collection as
\* it was, except collect(in_place=True) and the column assignment c[name] =
\* values on their receiver; every other call that returns (select, exclude,
\* filter, sort, apply, embed, query, add_column, add_rows, collect, and the
\* constructor) has a new Collection as its result.
CopyOnWriteButSetItem ==
    [][/\ \A j \in DOMAIN colls :
            \/ colls'[j].df = colls[j].df
            \/ last'.op = "collect" /\ last'.in_place /\ last'.recv = j
            \/ last'.op = "setitem" /\ last'.recv = j
       /\ (last'.err = "none" /\ last'.op \notin {"set_embedding_function", "setitem"}
              /\ ~(last'.op = "collect" /\ last'.in_place))
            => (last'.res = Len(colls) + 1 /\ Len(colls') = Len(colls) + 1)]_vars

\* C1 witness: a column assignment has given its receiver a table with an "ints"
\* value the raw data did not have, and another Collection exists.
SetItemReplacedTable ==
    /\ last.op = "setitem"
    /\ Len(colls) > 1
    /\ \E j \in DOMAIN Receiver.df.rows :
          Receiver.df.rows[j][IntsCol] # (Receiver.df.rows[j]["origin"] + 1) % 2

\* C2: every row of a Collection reached from raw data without add_rows carries
\* the vexpresso_index of its position in the raw data (0..N-1 in input order).
IndexStable ==
    \A j \in DOMAIN colls :
        (~colls[j].grown /\ IndexCol \in colls[j].df.cols) =>
            \A n \in DOMAIN colls[j].df.rows :
                colls[j].df.rows[n][IndexCol] = colls[j].df.rows[n]["origin"]

\* C2 witness: a call on a sorted Collection returned a Collection whose first
\* row is not the first row of the raw data.
IndexSurvivesReordering ==
    /\ last.op \in {"filter", "query", "collect", "embed", "apply", "exclude"}
    /\ Returned
    /\ last.recv > 1
    /\ ~Result.grown
    /\ IndexCol \in Result.df.cols
    /\ Len(Result.df.rows) > 0
    /\ Result.df.rows[1][IndexCol] # 0

\* C3: a registration made through one Collection leaves the registry seen
\* through every other Collection as it was.
RegistryIsolated ==
    [][\A j \in DOMAIN colls :
          j # last'.recv => regs'[colls'[j].reg] = regs[colls[j].reg]]_vars

\* C4: a transformation called lazily returns an unmaterialized Collection and
\* runs nothing on the engine; called eagerly it returns a materialized one;
\* collect returns a materialized Collection of the same rows and columns in
\* the same order; a transformation of a materialized Collection returns an
\* unmaterialized one.
LazyPlanStateMachine ==
    /\ (last.op \in Transformations /\ Returned) =>
          /\ last.lazy => (~Result.df.mat /\ ~last.executed)
          /\ ~last.lazy => Result.df.mat
    /\ (last.op = "collect" /\ Returned) =>
          /\ Result.df.mat
          /\ Result.df.rows = Receiver.df.rows
          /\ Result.df.cols = Receiver.df.cols

\* C5: a query with 0 < k <= N (or no k) and no filter returns exactly the rows
\* at the retriever's top min(k, N) positions, once each, in non-increasing
\* score order when sort is on.
QueryWellFormed ==
    /\ last.op = "query"
    /\ last.res # 0
    /\ Receiver.df.fail = "none"
    /\ NoneVal \notin Range(Column(Receiver.df, EmbCol))
    /\ (last.k = NoneVal \/ last.k <= Len(Receiver.df.rows))
TopPositions ==
    LET n == Len(Receiver.df.rows)
        k == IF last.k = NoneVal THEN n ELSE last.k
    IN  Range(SubSeq(Ranking(last.batch[1], Column(Receiver.df, EmbCol)), 1, Min(k, n)))
TopKQuery ==
    (QueryWellFormed /\ ~last.filt) =>
        /\ Result.df.fail = "none"
        /\ Len(Result.df.rows) = Cardinality(TopPositions)
        /\ Origins(Result.df.rows) = {Receiver.df.rows[p]["origin"] : p \in TopPositions}
        /\ last.sort => NonIncreasing(Result.df.rows, ScoreCol)

\* C6: a query with a batch of Q query vectors returns Q results, the last of
\* them ranked by the last query vector.
BatchedQuery ==
    (last.op = "query" /\ Returned) =>
        /\ ResultCount = Len(last.batch)
        /\ last.taken = Len(last.batch)

\* C7: embed (with its default update_embedding_fn) or query with an inline
\* function that differs from the registered one returns, warns, and computes
\* its embeddings with the inline function.
InlineFunctionUsed ==
    [][LET was == regs[colls[last'.recv].reg][EmbCol]
       IN  (/\ last'.op \in {"embed", "query"}
            /\ last'.res # 0
            /\ last'.fn # NoFn
            /\ last'.upd
            /\ was \notin {NoFn, last'.fn})
           => /\ last'.err = "none"
              /\ last'.warned
              /\ (last'.op = "query" /\ last'.raw # NoneVal) =>
                    last'.batch = <<FnApply(last'.fn, last'.raw)>>
              /\ last'.op = "embed" =>
                    \A n \in DOMAIN colls'[last'.res].df.rows :
                        colls'[last'.res].df.rows[n][EmbCol] =
                            FnApply(last'.fn, colls'[last'.res].df.rows[n][TextCol])]_vars

ScoreAligned ==
    (last.op = "query" /\ Returned /\ Result.df.fail = "none") =>
        \A n \in DOMAIN Result.df.rows :
            Result.df.rows[n][ScoreCol] = Score(last.batch[1], Result.df.rows[n][EmbCol])

\* C10: a query with filter conditions returns exactly the rows that are in the
\* retriever's top k and satisfy the conditions, by non-increasing score when
\* sort is on and in the receiver's row order when it is off.
FilterAfterRanking ==
    (QueryWellFormed /\ last.filt) =>
        /\ Result.df.fail = "none"
        /\ Origins(Result.df.rows) =
              {Receiver.df.rows[p]["origin"] :
                  p \in {q \in TopPositions : FilterPred(Receiver.df.rows[q])}}
        /\ Len(Result.df.rows) = Cardinality(Origins(Result.df.rows))
        /\ last.sort => NonIncreasing(Result.df.rows, ScoreCol)
        /\ ~last.sort => InOriginalOrder(Result.df.rows, Receiver.df.rows)

\* C11: add_rows on a Collection reached from raw data without add_rows returns
\* a Collection in which every row the receiver had keeps, at its position, the
\* vexpresso_index it had before the call (the one of its position in the raw
\* data); only the appended row gets a new value.
AddRowsKeepsIndex ==
    (last.op = "add_rows" /\ Returned /\ ~Receiver.grown /\ IndexCol \in Receiver.df.cols) =>
        /\ Len(Result.df.rows) = Len(Receiver.df.rows) + 1
        /\ \A p \in DOMAIN Receiver.df.rows :
              /\ Result.df.rows[p]["origin"] = Receiver.df.rows[p]["origin"]
              /\ Result.df.rows[p][IndexCol] = Receiver.df.rows[p][IndexCol]

====
